---- MODULE Spec2Model ----
(***************************************************************************)
(* Verification model of command-station-app.                              *)
(*                                                                         *)
(*  Part 1  Process supervisor      lib/app_manager.py                     *)
(*  Part 2  discoverSpecs           lib/app_manager.py  app_spec_list      *)
(*  Part 3  Config generators       tools/generate_nginx_conf*.py          *)
(*  Part 4  apply (backup + write)  lib/nginx_utils*.py, pages/*, tools/*  *)
(*                                                                         *)
(* Every part has its own specification over the same variables; the       *)
(* variables of the other parts keep their initial value.                  *)
(***************************************************************************)
EXTENDS Integers, Sequences, FiniteSets, TLC

VARIABLES
    proc,      \* OS process table: pid -> [st, port]
    pidfile,   \* the app's PID file <app_dir>/.run/<name>.pid : [exists, txt]
    fs,        \* which paths of the app exist, and whether mkdir may succeed
    denied,    \* pids whose owner is another user: os.kill raises PermissionError
    call,      \* per caller: position inside start_one_app / stop_one_app, result
    hist,      \* per caller: what the call in progress (or just ended) did
    nginx_cfg, \* .streamlit/nginx.toml as parsed: the entries in file order
    out,       \* what the last call of app_spec_list or of a generator returned
    target,    \* inode the name nginx.conf points to, 0 when there is no such file
    tmpf,      \* inode the name nginx.conf.tmp points to, 0 when there is none
    inodes,    \* inode -> content, a sequence of chunks
    backups,   \* the backup files: a set of [name, content]
    clock,     \* the wall clock, in seconds
    applies,   \* number of apply calls begun
    ap,        \* per applier: position inside the apply call, and what it saw
    texts,     \* the two texts handed to the diff: [a, b]
    disk,      \* nginx.conf as bytes on disk, and whether the generator wrote it
    dres,      \* what the last diff returned
    settings,  \* settings.toml, secrets.toml and APP_LOCATION_PRESET
    envout     \* what the last generator run chose as environment

supVars == <<proc, pidfile, fs, denied, call, hist>>

regVars == <<nginx_cfg, out>>

appVars == <<target, tmpf, inodes, backups, clock, applies, ap>>

diffVars == <<texts, disk, dres>>

envVars == <<settings, envout>>

vars == <<proc, pidfile, fs, denied, call, hist, nginx_cfg, out,
          target, tmpf, inodes, backups, clock, applies, ap,
          texts, disk, dres, settings, envout>>

\* What an action of one part leaves alone: the variables of the other parts.
othersOfSup == <<regVars, appVars, diffVars, envVars>>

othersOfReg == <<supVars, appVars, diffVars, envVars>>

othersOfApp == <<supVars, regVars, diffVars, envVars>>

othersOfDiff == <<supVars, regVars, appVars, envVars>>

othersOfEnv == <<supVars, regVars, appVars, diffVars>>

(***************************************************************************)
(* Part 1.  Process supervisor                                             *)
(***************************************************************************)

\* Number of process ids the operating system hands out in one behaviour.
\* Pids are handed out in increasing order and not reused.
MaxPid == 3

Pids == 1..MaxPid

\* The console is single-user and synchronous: one caller.  The second
\* caller only acts in the specification of concurrent calls.
Callers == {1, 2}

\* The spec dict of the one app under supervision (app_spec_list builds it).
TheSpec == [name |-> "bot", port |-> 8502]

\* Ports a process may listen on: the app's port and an unrelated one.
Ports == {TheSpec.port, 9000}

NoFile == [exists |-> FALSE, txt |-> 0]

\* echo $! that writes nothing.
PidFileOfMut(p) == [exists |-> FALSE, txt |-> 0]

\* pid_file.read_text(): txt = 0 stands for text int() cannot parse.
PidFileOf(p) == [exists |-> TRUE, txt |-> p]

Unborn == [st |-> "unborn", port |-> 0]

Gone == [st |-> "dead", port |-> 0]

Alive(p) == p \in Pids /\ proc[p].st = "alive"

Min(S) == CHOOSE x \in S : \A y \in S : x <= y

RECURSIVE SortedSeq(_)
SortedSeq(S) == IF S = {} THEN <<>> ELSE <<Min(S)>> \o SortedSeq(S \ {Min(S)})

Range(s) == {s[i] : i \in 1..Len(s)}

Count(s, x) == Cardinality({i \in 1..Len(s) : s[i] = x})

\* os.kill(pid, 0) inside try/except Exception: any failure means "not running".
IsPidRunning(p) == Alive(p) /\ p \notin denied

\* lsof -ti tcp:<port>, parsed: the pids bound to the port, one per line.
FindPidsByPort(port) == SortedSeq({p \in Pids : Alive(p) /\ proc[p].port = port})

Ret(op, ok, msg) == [op |-> op, kind |-> "ret", ok |-> ok, msg |-> msg]

\* An exception that leaves the function: the caller gets no (ok, msg) pair.
Raise(op, msg) == [op |-> op, kind |-> "raise", ok |-> FALSE, msg |-> msg]

NoRes == [op |-> "none", kind |-> "none", ok |-> FALSE, msg |-> ""]

IdleCall == [pc |-> "idle", op |-> "none", pids |-> <<>>, via |-> "-", res |-> NoRes]

\* What one call did, and the state it found on entry.
NewHist(c) ==
    [prev |-> call[c].res,
     preFile |-> pidfile,
     prePidLive |-> (pidfile.exists /\ IsPidRunning(pidfile.txt)),
     prePortBusy |-> (FindPidsByPort(TheSpec.port) # <<>>),
     preFs |-> fs,
     term |-> <<>>, kill |-> <<>>, slept |-> FALSE, probed |-> FALSE,
     liveAtProbe |-> {},
     spawned |-> <<>>, pidWrites |-> 0, unlinks |-> 0]

NoHist ==
    [prev |-> NoRes, preFile |-> NoFile, prePidLive |-> FALSE, prePortBusy |-> FALSE,
     preFs |-> [app_dir |-> FALSE, venv_activate |-> FALSE, app_py |-> FALSE,
                pid_dir |-> FALSE, log_dir |-> FALSE, writable |-> FALSE],
     term |-> <<>>, kill |-> <<>>, slept |-> FALSE, probed |-> FALSE,
     liveAtProbe |-> {},
     spawned |-> <<>>, pidWrites |-> 0, unlinks |-> 0]

Finish(c, res) == call' = [call EXCEPT ![c] = [IdleCall EXCEPT !.res = res]]

\* ---------------------------------------------------------------- start

\* The three precondition checks, in the order of the code; "" when all pass.
StartPreconditionMut ==
    IF ~fs.app_dir THEN "app_dir missing"
    ELSE IF ~fs.app_py THEN "entry file missing"
    ELSE ""

StartPrecondition ==
    IF ~fs.app_dir THEN "app_dir missing"
    ELSE IF ~fs.venv_activate THEN "venv missing"
    ELSE IF ~fs.app_py THEN "entry file missing"
    ELSE ""

\* ensure_dir(pid_dir); ensure_dir(log_dir): mkdir(parents=True, exist_ok=True)
EnsureDirsRaises == (~fs.pid_dir \/ ~fs.log_dir) /\ ~fs.writable

EnsureDirs == [fs EXCEPT !.pid_dir = TRUE, !.log_dir = TRUE]

\* The PID file names a running process: start skips the spawn.
StartAlreadyRunningMut == FALSE

\* A start that takes any PID file for a running app.
StartTrustsPidFileMut == pidfile.exists

StartAlreadyRunning == pidfile.exists /\ pidfile.txt # 0 /\ IsPidRunning(pidfile.txt)

\* No process is found on the port: start goes on to the spawn.
StartPortInUseMut == FALSE

\* existing_pids = find_pids_by_port(port); if existing_pids: return True, ...
StartPortInUse == FindPidsByPort(TheSpec.port) # <<>>

\* start_one_app up to the subprocess call.
StartCheck(c) ==
    /\ call[c].pc = "idle"
    /\ hist' = [hist EXCEPT ![c] = NewHist(c)]
    /\ UNCHANGED <<proc, pidfile, denied, othersOfSup>>
    /\ IF StartPrecondition # ""
       THEN /\ Finish(c, Ret("start", FALSE, StartPrecondition))
            /\ UNCHANGED fs
       ELSE IF EnsureDirsRaises
       THEN /\ Finish(c, Raise("start", "mkdir failed"))
            /\ UNCHANGED fs
       ELSE /\ fs' = EnsureDirs
            /\ IF StartAlreadyRunning
               THEN Finish(c, Ret("start", TRUE, "already running"))
               ELSE IF StartPortInUse
               THEN Finish(c, Ret("start", TRUE, "port in use"))
               ELSE call' = [call EXCEPT ![c] =
                               [IdleCall EXCEPT !.pc = "st_spawn", !.op = "start"]]

\* The pid the operating system gives the next process.
FreePids == {p \in Pids : proc[p].st = "unborn"}

\* run(["bash", "-lc", cmd]) returned 0: nohup ... & ; echo $! > pid_file
StartSpawnOk(c) ==
    /\ call[c].pc = "st_spawn"
    /\ FreePids # {}
    /\ LET p == Min(FreePids) IN
         /\ proc' = [proc EXCEPT ![p] = [st |-> "alive", port |-> 0]]
         /\ pidfile' = PidFileOf(p)
         /\ hist' = [hist EXCEPT ![c].spawned = Append(@, p),
                                 ![c].pidWrites = @ + 1]
    /\ call' = [call EXCEPT ![c].pc = "st_wait"]
    /\ UNCHANGED <<fs, denied, othersOfSup>>

\* run(...) returned nonzero before the background job was started
\* (set -e: cd or the activate script failed).
StartSpawnFail(c) ==
    /\ call[c].pc = "st_spawn"
    /\ Finish(c, Ret("start", FALSE, "spawn failed"))
    /\ UNCHANGED <<proc, pidfile, fs, denied, hist, othersOfSup>>

\* run(...) returned nonzero after the background job was started: the
\* last command, echo $! > pid_file, could not open the PID file (the .run
\* directory or the old PID file is not writable), and its status is the
\* status of the script.
StartSpawnNoPid(c) ==
    /\ call[c].pc = "st_spawn"
    /\ FreePids # {}
    /\ LET p == Min(FreePids) IN
         /\ proc' = [proc EXCEPT ![p] = [st |-> "alive", port |-> 0]]
         /\ hist' = [hist EXCEPT ![c].spawned = Append(@, p)]
    /\ Finish(c, Ret("start", FALSE, "spawn failed"))
    /\ UNCHANGED <<pidfile, fs, denied, othersOfSup>>

\* time.sleep(1.2), then the PID file is read back for the message.
StartFinish(c) ==
    /\ call[c].pc = "st_wait"
    /\ Finish(c, Ret("start", TRUE, "started"))
    /\ UNCHANGED <<proc, pidfile, fs, denied, hist, othersOfSup>>

\* ----------------------------------------------------------------- stop

\* stop_one_app up to the call of kill_pids (or its return when there is
\* nothing to kill).
StopNothingFoundMut == Ret("stop", FALSE, "no pid found")

StopNothingFound == Ret("stop", TRUE, "no running process")

\* lsof that lists one pid of the port only.
StopPortPidsMut ==
    LET pids == FindPidsByPort(TheSpec.port)
    IN IF pids = <<>> THEN <<>> ELSE <<pids[1]>>

\* pids = find_pids_by_port(port)
StopPortPids == FindPidsByPort(TheSpec.port)

\* A stop that hands any list to kill_pids.
StopKillsByPortMut(pids) == TRUE

\* if pids: ok, msg = kill_pids(pids)
StopKillsByPort(pids) == pids # <<>>

StopCheck(c) ==
    /\ call[c].pc = "idle"
    /\ UNCHANGED <<proc, fs, denied, othersOfSup>>
    /\ IF pidfile.exists /\ pidfile.txt # 0 /\ IsPidRunning(pidfile.txt)
       THEN /\ call' = [call EXCEPT ![c] =
                          [IdleCall EXCEPT !.pc = "kp_term", !.op = "stop",
                                           !.pids = <<pidfile.txt>>, !.via = "pidfile"]]
            /\ hist' = [hist EXCEPT ![c] = NewHist(c)]
            /\ UNCHANGED pidfile
       ELSE /\ pidfile' = NoFile
            /\ hist' = [hist EXCEPT ![c] =
                          [NewHist(c) EXCEPT !.unlinks = IF pidfile.exists THEN 1 ELSE 0]]
            /\ LET pids == StopPortPids IN
                 IF StopKillsByPort(pids)
                 THEN call' = [call EXCEPT ![c] =
                                 [IdleCall EXCEPT !.pc = "kp_term", !.op = "stop",
                                                  !.pids = pids, !.via = "port"]]
                 ELSE Finish(c, StopNothingFound)

\* stop_one_app that takes every return of kill_pids for a success.
StopAfterKillMut(c, ok) ==
    IF call[c].via = "pidfile"
    THEN Ret("stop", TRUE, "stopped (pid)")
    ELSE IF call[c].via = "port"
    THEN Ret("stop", TRUE, "stopped (port)")
    ELSE Ret("kill", TRUE, "killed")

\* What stop_one_app returns once kill_pids has returned (ok, msg); what
\* kill_pids itself returns when it was not called by stop_one_app.
StopAfterKill(c, ok) ==
    IF call[c].via = "pidfile"
    THEN Ret("stop", ok, IF ok THEN "stopped (pid)" ELSE "stop failed (pid)")
    ELSE IF call[c].via = "port"
    THEN Ret("stop", ok, IF ok THEN "stopped (port)" ELSE "stop failed (port)")
    ELSE Ret("kill", ok, IF ok THEN "killed" ELSE "kill failed")

\* ------------------------------------------------------------ kill_pids

\* First loop: os.kill(pid, SIGTERM) for each pid, in order.  A dead pid
\* (ProcessLookupError) is passed over; PermissionError ends the loop.
\* The index of the first pid that makes the loop return, 0 when none does.
TermAbortIndexMut(pids) == 0

TermAbortIndex(pids) ==
    LET bad == {i \in 1..Len(pids) : Alive(pids[i]) /\ pids[i] \in denied}
    IN IF bad = {} THEN 0 ELSE Min(bad)

\* if not pids: return False, "PIDが見つかりませんでした。"
KillNoPids(c) ==
    IF call[c].via = "direct"
    THEN Ret("kill", FALSE, "no pid found")
    ELSE StopAfterKill(c, FALSE)

\* kill_pids(pids) is called outside stop_one_app.
KillPids(c, pids) ==
    /\ call[c].pc = "idle"
    /\ hist' = [hist EXCEPT ![c] = NewHist(c)]
    /\ call' = [call EXCEPT ![c] =
                  [IdleCall EXCEPT !.pc = "kp_term", !.op = "kill",
                                   !.pids = pids, !.via = "direct"]]
    /\ UNCHANGED <<proc, pidfile, fs, denied, othersOfSup>>

KillTerm(c) ==
    /\ call[c].pc = "kp_term"
    /\ LET pids == call[c].pids
           k == TermAbortIndex(pids)
       IN IF pids = <<>>
          THEN /\ Finish(c, KillNoPids(c))
               /\ UNCHANGED hist
          ELSE IF k = 0
          THEN /\ hist' = [hist EXCEPT ![c].term = pids]
               /\ call' = [call EXCEPT ![c].pc = "kp_sleep"]
          ELSE /\ hist' = [hist EXCEPT ![c].term = SubSeq(pids, 1, k)]
               /\ Finish(c, StopAfterKill(c, FALSE))
    /\ UNCHANGED <<proc, pidfile, fs, denied, othersOfSup>>

\* Second loop: os.kill(pid, 0) catches ProcessLookupError only.
ProbeRaises(pids) == \E i \in 1..Len(pids) : Alive(pids[i]) /\ pids[i] \in denied

\* still: the pids that answered the probe, in list order.
StillMut(pids) == pids

Still(pids) == SelectSeq(pids, LAMBDA p : Alive(p))

\* time.sleep(grace_sec) is over: probe, SIGKILL the survivors, return; then
\* the rest of stop_one_app.
KillFinish(c) ==
    /\ call[c].pc = "kp_sleep"
    /\ LET pids == call[c].pids
           still == Still(pids)
       IN IF ProbeRaises(pids)
          THEN /\ hist' = [hist EXCEPT ![c].slept = TRUE, ![c].probed = TRUE,
                              ![c].liveAtProbe = {p \in Range(pids) : Alive(p)}]
               /\ Finish(c, Raise("stop", "PermissionError"))
               /\ UNCHANGED <<proc, pidfile>>
          ELSE /\ hist' = [hist EXCEPT ![c].slept = TRUE, ![c].probed = TRUE,
                              ![c].liveAtProbe = {p \in Range(pids) : Alive(p)},
                              ![c].kill = still,
                              ![c].unlinks = IF call[c].via = "pidfile" THEN @ + 1 ELSE @]
               /\ proc' = [p \in Pids |-> IF p \in Range(still) /\ Alive(p)
                                          THEN Gone ELSE proc[p]]
               /\ pidfile' = IF call[c].via = "pidfile" THEN NoFile ELSE pidfile
               /\ Finish(c, StopAfterKill(c, TRUE))
    /\ UNCHANGED <<fs, denied, othersOfSup>>

\* --------------------------------------------------------------- status

\* One row of the status table: running, and how the process was found.
StatusRow(running, via) == [op |-> "status", kind |-> "ret", ok |-> running, msg |-> via]

\* ps -p <pid>: the process exists, whoever owns it.
PidAlive(p) == Alive(p)

\* The port is looked at before the PID file.
StatusOfMut ==
    IF FindPidsByPort(TheSpec.port) # <<>> THEN StatusRow(TRUE, "port")
    ELSE IF pidfile.exists /\ pidfile.txt # 0 /\ PidAlive(pidfile.txt)
    THEN StatusRow(TRUE, "pidfile")
    ELSE StatusRow(FALSE, "-")

\* The row of the app: the PID file first, then the first pid lsof lists.
StatusOf ==
    IF pidfile.exists /\ pidfile.txt # 0 /\ PidAlive(pidfile.txt)
    THEN StatusRow(TRUE, "pidfile")
    ELSE LET pids == FindPidsByPort(TheSpec.port)
         IN IF pids # <<>> /\ PidAlive(pids[1])
            THEN StatusRow(TRUE, "port")
            ELSE StatusRow(FALSE, "-")

\* The page computes the rows of the status table.
Status(c) ==
    /\ call[c].pc = "idle"
    /\ hist' = [hist EXCEPT ![c] = NewHist(c)]
    /\ Finish(c, StatusOf)
    /\ UNCHANGED <<proc, pidfile, fs, denied, othersOfSup>>

\* ---------------------------------------------------------- environment

\* A process started outside the console, listening on port (0: on none).
ExtSpawn(port) ==
    /\ FreePids # {}
    /\ proc' = [proc EXCEPT ![Min(FreePids)] = [st |-> "alive", port |-> port]]
    /\ UNCHANGED <<pidfile, fs, denied, call, hist, othersOfSup>>

\* A started streamlit process begins to listen on its --server.port.
Bind(p) ==
    /\ Alive(p) /\ proc[p].port = 0
    /\ proc' = [proc EXCEPT ![p].port = TheSpec.port]
    /\ UNCHANGED <<pidfile, fs, denied, call, hist, othersOfSup>>

\* A process exits: on SIGTERM, or on its own.
Exit(p) ==
    /\ Alive(p)
    /\ proc' = [proc EXCEPT ![p] = Gone]
    /\ UNCHANGED <<pidfile, fs, denied, call, hist, othersOfSup>>

\* A live process comes to belong to another user (it changes its user id,
\* or belongs to one from the start): os.kill on it raises PermissionError.
Deny(p) ==
    /\ Alive(p) /\ p \notin denied
    /\ denied' = denied \cup {p}
    /\ UNCHANGED <<proc, pidfile, fs, call, hist, othersOfSup>>

(***************************************************************************)
(* Part 2 and 3.  The registry (.streamlit/nginx.toml), app_spec_list and  *)
(* the three generators.                                                   *)
(*                                                                         *)
(* A path is a sequence of tokens, "/" or a name: /bot/ is <<"/","bot","/">>.*)
(* A rendered location block is a record: the path of its redirect rule    *)
(* (location = X), the path of its proxy rule (location X/), the port of   *)
(* proxy_pass and whether it rewrites the cookie path to "/".              *)
(***************************************************************************)

\* Nothing has been computed from the registry yet.
NoOut == [fn |-> "none", status |-> "none", specs |-> <<>>, blocks |-> <<>>]

\* Number of entries of the registry.
MaxApps == 2

AllNames == <<"bot", "auth", "minutes">>

Names == {AllNames[i] : i \in 1..MaxApps}

\* The port written in an entry: none, 0, a negative number, a usable port.
PortValues == {-1, 0, 8502}

\* base of an entry: absent (<<>>), "bot", "/bot/", "/", "/alt".
BaseValues(name) == {<<>>, <<name>>, <<"/", name, "/">>, <<"/">>, <<"/", "alt">>}

\* [name] port = .. enabled = .. base = .. sso_issuer = ..
\* enabled = TRUE also stands for an entry without the key (the default).
\* A disabled entry is skipped before any other key is read: its other keys
\* are left out.
Entry(name) ==
    {[name |-> name, enabled |-> FALSE, hasPort |-> FALSE, port |-> 0,
      base |-> <<>>, sso_issuer |-> FALSE]}
    \cup
    {[name |-> name, enabled |-> TRUE, hasPort |-> hp, port |-> pt,
      base |-> b, sso_issuer |-> s] :
        hp \in BOOLEAN, pt \in PortValues, b \in BaseValues(name), s \in BOOLEAN}

WellFormedEntry(e) == ~e.hasPort => e.port = 0

\* The registries: up to MaxApps entries, each under its own name.
Registries ==
    UNION {{r \in [1..n -> UNION {Entry(nm) : nm \in Names}] :
               /\ \A i \in 1..n : WellFormedEntry(r[i])
               /\ \A i, j \in 1..n : i # j => r[i].name # r[j].name}
           : n \in 0..MaxApps}

Map(s, F(_)) == [i \in 1..Len(s) |-> F(s[i])]

\* cfg.get("base") or f"/{app}"
BaseOf(e) == IF e.base = <<>> THEN <<"/", e.name>> ELSE e.base

\* base.lstrip("/")
RECURSIVE LStripSlash(_)
LStripSlash(b) ==
    IF b # <<>> /\ Head(b) = "/" THEN LStripSlash(Tail(b)) ELSE b

\* ------------------------------------------------------- app_spec_list

\* int(cfg.get("port", 0))
SpecPortOf(e) == IF e.hasPort THEN e.port ELSE 0

\* <project_root>/<name>_project/<name>_app/.run/<name>.pid
\* as path components, a component being the pieces it is formatted from.
PidFilePath(name) ==
    <<<<"project_root">>, <<name, "_project">>, <<name, "_app">>, <<".run">>, <<name, ".pid">>>>

AppSpecOf(e) == [name |-> e.name, port |-> SpecPortOf(e), pid_file |-> PidFilePath(e.name)]

\* if not cfg.get("enabled", True): continue;  if not port: continue
SpecKept(e) == e.enabled /\ SpecPortOf(e) # 0

app_spec_list(cfg) == Map(SelectSeq(cfg, SpecKept), AppSpecOf)

\* --server.baseUrlPath="{name}" of the command start_one_app runs.
BaseUrlPath(spec) == <<spec.name>>

AppSpecList ==
    /\ out' = [NoOut EXCEPT !.fn = "app_spec_list", !.status = "ok",
                            !.specs = app_spec_list(nginx_cfg)]
    /\ UNCHANGED <<nginx_cfg, othersOfReg>>

\* ------------------------------------- tools/generate_nginx_conf_https.py

Block(kind, app, redirect, proxy, port, cookie) ==
    [kind |-> kind, app |-> app, redirect |-> redirect, proxy |-> proxy,
     port |-> port, cookie |-> cookie]

\* Python's truth value of cfg.get("port"): None and 0 are false.
PortTruthy(e) == e.hasPort /\ e.port # 0

\* _detect_sso_app: the first enabled entry with sso_issuer = true; 0 if none.
DetectSsoIndex(cfg) ==
    LET S == {i \in 1..Len(cfg) : cfg[i].enabled /\ cfg[i].sso_issuer}
    IN IF S = {} THEN 0 ELSE Min(S)

\* _enabled_apps
EnabledApps(cfg) == SelectSeq(cfg, LAMBDA e : e.enabled)

\* One block of _gen_locations.
HttpsAppBlock(e) ==
    Block("app", e.name, BaseOf(e), BaseOf(e) \o <<"/">>, e.port, FALSE)

\* _gen_locations(apps, sso_name): the SSO app and the apps without a port
\* are left out.
GenLocations(apps, sso_name) ==
    Map(SelectSeq(apps, LAMBDA e : ~(e.name = sso_name \/ ~PortTruthy(e))),
        HttpsAppBlock)

\* _render_conf: the SSO block with its two proxy_cookie_path lines, the
\* "location /" block routed to the SSO app, then the other apps.
RenderConfHttps(cfg) ==
    LET k == DetectSsoIndex(cfg)
        ssoBlocks ==
            IF k # 0 /\ PortTruthy(cfg[k])
            THEN <<Block("sso", cfg[k].name, BaseOf(cfg[k]),
                         BaseOf(cfg[k]) \o <<"/">>, cfg[k].port, TRUE),
                   Block("root", cfg[k].name, <<>>, <<"/">>, cfg[k].port, FALSE)>>
            ELSE <<>>
    IN ssoBlocks \o GenLocations(EnabledApps(cfg), IF k = 0 THEN "" ELSE cfg[k].name)

RenderHttps ==
    /\ out' = [NoOut EXCEPT !.fn = "render_https", !.status = "ok",
                            !.blocks = RenderConfHttps(nginx_cfg)]
    /\ UNCHANGED <<nginx_cfg, othersOfReg>>

\* --------------------------------------- tools/generate_nginx_conf_new.py

\* _sso_cookie_lines(base, is_sso_issuer) is not the empty string.
SsoCookieLines(base, is_sso) == is_sso /\ base # <<"/">>

\* One block of build_location_blocks: port = int(cfg.get("port") or 0).
NewAppBlock(e) ==
    LET prefix == LStripSlash(BaseOf(e))
    IN Block("app", e.name, <<"/">> \o prefix, <<"/">> \o prefix \o <<"/">>,
             IF e.hasPort THEN e.port ELSE 0,
             SsoCookieLines(BaseOf(e), e.sso_issuer))

\* build_location_blocks: every entry but those with enabled = false.
build_location_blocks(cfg) == Map(SelectSeq(cfg, LAMBDA e : e.enabled), NewAppBlock)

RenderNew ==
    /\ out' = [NoOut EXCEPT !.fn = "render_new", !.status = "ok",
                            !.blocks = build_location_blocks(nginx_cfg)]
    /\ UNCHANGED <<nginx_cfg, othersOfReg>>

\* ------------------------------------------- tools/generate_nginx_conf.py

\* One block of render_locations: the prefix is the app's name.
OldAppBlock(e) ==
    Block("app", e.name, <<"/", e.name>>, <<"/", e.name, "/">>, e.port, FALSE)

\* render_locations: entries without a port key and disabled ones are skipped.
render_locations(cfg) == Map(SelectSeq(cfg, LAMBDA e : e.hasPort /\ e.enabled), OldAppBlock)

RenderOld ==
    /\ out' = [NoOut EXCEPT !.fn = "render_old", !.status = "ok",
                            !.blocks = render_locations(nginx_cfg)]
    /\ UNCHANGED <<nginx_cfg, othersOfReg>>

(***************************************************************************)
(* Part 4.  apply: writing the proxy configuration file.                   *)
(*                                                                         *)
(* The directory of nginx.conf holds the target (nginx.conf), the          *)
(* temporary sibling (nginx.conf.tmp) and the backups.  A name points to   *)
(* an inode; an open file keeps its inode whatever happens to the name.    *)
(* A text is written in two chunks; a hole is chunk 0.                     *)
(***************************************************************************)

\* Number of apply calls in one behaviour.
MaxApplies == 2

\* Seconds the clock may advance (backup names carry the time to the second).
MaxClock == 1

Appliers == {1, 2}

\* "save": the editor's save button (pages 80, 92 with lib/nginx_utils.py;
\*         page 32 with lib/nginx_utils_new.py, which has the same steps);
\* the others: a generator run without --dry-run.
AtomicKinds == {"save", "gen_https"}

DirectKinds == {"gen_new", "gen_old"}

ApplyKinds == AtomicKinds \cup DirectKinds

\* The complete text the k-th apply writes; text 0 is on disk at the start.
TextOf(k) == <<10 * k + 1, 10 * k + 2>>

CompleteTexts == {TextOf(k) : k \in 0..MaxApplies}

Inodes == 1..(MaxApplies + 1)

IdleAp ==
    [pc |-> "idle", kind |-> "none", k |-> 0, fd |-> 0, off |-> 0,
     existed |-> FALSE, pre |-> <<>>, bakBefore |-> {}, backed |-> FALSE,
     res |-> "none", test |-> -1, dry |-> FALSE]

\* The content behind a name; <<>> when the name does not exist.
ContentOf(ino) == IF ino = 0 THEN <<>> ELSE inodes[ino]

BackupNames == {b.name : b \in backups}

\* The name make_backup (or the generator) gives the backup taken now.
\*   lib/nginx_utils.py      nginx.conf.bak.<ts>
\*   generate_nginx_conf_new nginx.conf.<ts>.bak
\*   generate_nginx_conf     nginx.conf.bak      (one fixed name)
BackupName(kind) ==
    CASE kind = "save" -> <<"bak.ts", clock>>
      [] kind = "gen_new" -> <<"ts.bak", clock>>
      [] OTHER -> <<"conf.bak", 0>>

\* generate_nginx_conf_https.py main calls atomic_write and nothing else.
TakesBackup(kind) == kind \in {"save", "gen_new", "gen_old"}

\* shutil.copy2(path, backup): a backup of that name is replaced.
WithBackup(name, content) ==
    {b \in backups : b.name # name} \cup {[name |-> name, content |-> content]}

\* An inode no name and no open file refers to is forgotten.
Collect(ino, tgt, tmp, aps) ==
    [i \in Inodes |->
        IF i = tgt \/ i = tmp \/ (\E a \in Appliers : aps[a].fd = i)
        THEN ino[i] ELSE <<>>]

FreshInode == Min({i \in Inodes : i # target /\ i # tmpf
                                  /\ \A a \in Appliers : ap[a].fd # i})

\* The call starts: conf_path.exists() and, if so, the backup.
\* dry: the command line of the generator had --dry-run.
ApStart(a, kind, dry) ==
    /\ ap[a].pc = "idle"
    /\ applies < MaxApplies
    /\ applies' = applies + 1
    /\ LET doBackup == TakesBackup(kind) /\ target # 0 IN
         /\ backups' = IF doBackup
                       THEN WithBackup(BackupName(kind), ContentOf(target))
                       ELSE backups
         /\ ap' = [ap EXCEPT ![a] =
                     [IdleAp EXCEPT !.pc = "open", !.kind = kind, !.k = applies + 1,
                                    !.existed = (target # 0),
                                    !.pre = ContentOf(target),
                                    !.bakBefore = BackupNames,
                                    !.backed = doBackup,
                                    !.dry = dry]]
    /\ UNCHANGED <<target, tmpf, inodes, clock, othersOfApp>>

\* The editor's save, or a generator run without --dry-run.
ApBegin(a, kind) == ApStart(a, kind, FALSE)

\* The generators: tools/generate_nginx_conf_https.py, _new.py and .py
GenKinds == {"gen_https", "gen_new", "gen_old"}

\* A main that does not look at the flag.
MainWritesMut(dry) == TRUE

\* if args.dry_run: sys.stdout.write(conf_text); return 0
MainWrites(dry) == ~dry

\* main of a generator, up to its first file operation: the text is
\* rendered, then either written to stdout or to nginx.conf.
GenMain(a, kind, dry) ==
    IF MainWrites(dry)
    THEN ApStart(a, kind, dry)
    ELSE /\ ap[a].pc = "idle"
         /\ applies < MaxApplies
         /\ ap' = [ap EXCEPT ![a] =
                     [IdleAp EXCEPT !.pc = "done", !.kind = kind, !.k = applies + 1,
                                    !.existed = (target # 0),
                                    !.pre = ContentOf(target),
                                    !.bakBefore = BackupNames,
                                    !.res = "stdout",
                                    !.dry = dry]]
         /\ UNCHANGED <<target, tmpf, inodes, backups, clock, applies, othersOfApp>>

\* open(..., "w"): the file is created, or truncated in place.
\* atomic_write opens nginx.conf.tmp; write_text of a generator opens nginx.conf.
ApOpen(a) ==
    /\ ap[a].pc = "open"
    /\ LET name == IF ap[a].kind \in AtomicKinds THEN tmpf ELSE target
           ino == IF name = 0 THEN FreshInode ELSE name
       IN /\ inodes' = [inodes EXCEPT ![ino] = <<>>]
          /\ IF ap[a].kind \in AtomicKinds
             THEN tmpf' = ino /\ UNCHANGED target
             ELSE target' = ino /\ UNCHANGED tmpf
          /\ ap' = [ap EXCEPT ![a].pc = "write", ![a].fd = ino, ![a].off = 0]
    /\ UNCHANGED <<backups, clock, applies, othersOfApp>>

\* The bytes of content with chunk c written at offset off (0-based).
WriteAt(content, off, c) ==
    [i \in 1..(IF Len(content) > off + 1 THEN Len(content) ELSE off + 1) |->
        IF i = off + 1 THEN c
        ELSE IF i <= Len(content) THEN content[i] ELSE 0]

\* One write of the open file; after the last one the file is closed.
ApWrite(a) ==
    /\ ap[a].pc = "write"
    /\ LET off == ap[a].off
           done == off + 1 = Len(TextOf(ap[a].k))
           atomic == ap[a].kind \in AtomicKinds
           ap1 == [ap EXCEPT ![a].off = off + 1,
                             ![a].fd = IF done THEN 0 ELSE @,
                             ![a].pc = IF ~done THEN "write"
                                       ELSE IF atomic THEN "rename" ELSE "test"]
       IN /\ ap' = ap1
          /\ inodes' = Collect([inodes EXCEPT ![ap[a].fd] =
                                   WriteAt(@, off, TextOf(ap[a].k)[off + 1])],
                               target, tmpf, ap1)
    /\ UNCHANGED <<target, tmpf, backups, clock, applies, othersOfApp>>

\* tmp.replace(path): FileNotFoundError when nginx.conf.tmp is gone.
ApRename(a) ==
    /\ ap[a].pc = "rename"
    /\ IF tmpf = 0
       THEN /\ ap' = [ap EXCEPT ![a].pc = "done", ![a].res = "error"]
            /\ UNCHANGED <<target, tmpf, inodes>>
       ELSE /\ target' = tmpf
            /\ tmpf' = 0
            /\ ap' = [ap EXCEPT ![a].pc = "test"]
            /\ inodes' = Collect(inodes, tmpf, 0, ap)
    /\ UNCHANGED <<backups, clock, applies, othersOfApp>>

\* A rollback: the written file is taken away when the test fails.
TargetAfterTestMut(code) == IF code # 0 THEN 0 ELSE target

\* The page shows the exit code of the test and touches no file.
TargetAfterTest(code) == target

\* nginx -t -c <conf_path>: its exit code is shown; nothing is undone.
ApTest(a, code) ==
    /\ ap[a].pc = "test"
    /\ ap' = [ap EXCEPT ![a].pc = "done", ![a].res = "written", ![a].test = code]
    /\ target' = TargetAfterTest(code)
    /\ UNCHANGED <<tmpf, inodes, backups, clock, applies, othersOfApp>>

\* The caller is ready for its next call.
ApReturn(a) ==
    /\ ap[a].pc = "done"
    /\ applies < MaxApplies
    /\ ap' = [ap EXCEPT ![a] = IdleAp]
    /\ UNCHANGED <<target, tmpf, inodes, backups, clock, applies, othersOfApp>>

\* datetime.now() moves on to the next second.
Tick ==
    /\ clock < MaxClock
    /\ clock' = clock + 1
    /\ UNCHANGED <<target, tmpf, inodes, backups, applies, ap, othersOfApp>>

(***************************************************************************)
(* Part 5.  The diff preview: current nginx.conf against the dry run.      *)
(*                                                                         *)
(* A text is a sequence of characters; "LF" and "CR" are the line ends.    *)
(***************************************************************************)

\* Length of the longest text.
MaxLen == 3

\* n of difflib.unified_diff: lines of context around a change.
DiffContext == 2

Chars == {"x", "LF", "CR"}

Texts == UNION {[1..n -> Chars] : n \in 0..MaxLen}

\* str.splitlines(keepends=True), the line read so far being cur: a line
\* ends after CR LF, after LF or after CR, and keeps its line end.
RECURSIVE SplitFrom(_, _)
SplitFrom(t, cur) ==
    IF t = <<>> THEN (IF cur = <<>> THEN <<>> ELSE <<cur>>)
    ELSE IF Len(t) >= 2 /\ t[1] = "CR" /\ t[2] = "LF"
         THEN <<cur \o <<"CR", "LF">>>> \o SplitFrom(Tail(Tail(t)), <<>>)
    ELSE IF t[1] \in {"CR", "LF"}
         THEN <<cur \o <<t[1]>>>> \o SplitFrom(Tail(t), <<>>)
    ELSE SplitFrom(Tail(t), cur \o <<t[1]>>)

\* splitlines without keepends: the line ends are dropped.
SplitLinesMut(t) ==
    LET keep == SplitFrom(t, <<>>)
    IN [i \in 1..Len(keep) |-> SelectSeq(keep[i], LAMBDA ch : ch \notin {"CR", "LF"})]

SplitLines(t) == SplitFrom(t, <<>>)

\* Reading in text mode (Path.read_text, subprocess.run(text=True)):
\* universal newlines turn CR LF and CR into LF.
RECURSIVE ReadText(_)
ReadText(bytes) ==
    IF bytes = <<>> THEN <<>>
    ELSE IF Len(bytes) >= 2 /\ bytes[1] = "CR" /\ bytes[2] = "LF"
         THEN <<"LF">> \o ReadText(Tail(Tail(bytes)))
    ELSE IF bytes[1] = "CR" THEN <<"LF">> \o ReadText(Tail(bytes))
    ELSE <<bytes[1]>> \o ReadText(Tail(bytes))

\* Writing: atomic_write opens with newline="\n" and sys.stdout.write on a
\* POSIX pipe translates LF to os.linesep = LF; CR goes through as it is.
WriteText(t) == [i \in 1..Len(t) |-> t[i]]

\* Number of leading lines two line lists share.
RECURSIVE CommonPrefix(_, _)
CommonPrefix(la, lb) ==
    IF la # <<>> /\ lb # <<>> /\ Head(la) = Head(lb)
    THEN 1 + CommonPrefix(Tail(la), Tail(lb))
    ELSE 0

Reverse(s) == [i \in 1..Len(s) |-> s[Len(s) + 1 - i]]

Tag(tag, lines) == [i \in 1..Len(lines) |-> <<tag, lines[i]>>]

Max(x, y) == IF x >= y THEN x ELSE y

\* difflib.unified_diff over two line lists: nothing when the lists are
\* equal, otherwise the two header lines and one hunk from the first to the
\* last differing line with up to DiffContext lines of context around it
\* (difflib may split the same change into several hunks).
UnifiedDiff(la, lb) ==
    IF la = lb THEN <<>>
    ELSE LET p == CommonPrefix(la, lb)
             ra == SubSeq(la, p + 1, Len(la))
             rb == SubSeq(lb, p + 1, Len(lb))
             s == CommonPrefix(Reverse(ra), Reverse(rb))
             lead == SubSeq(la, Max(p - DiffContext, 0) + 1, p)
             trail == SubSeq(ra, Len(ra) - s + 1,
                             Len(ra) - s + (IF s < DiffContext THEN s ELSE DiffContext))
         IN <<<<"---", <<>>>>, <<"+++", <<>>>>>>
            \o Tag(" ", lead)
            \o Tag("-", SubSeq(ra, 1, Len(ra) - s))
            \o Tag("+", SubSeq(rb, 1, Len(rb) - s))
            \o Tag(" ", trail)

\* diff_current_vs_generated(current_text, generated_text)
diff_current_vs_generated(current_text, generated_text) ==
    UnifiedDiff(SplitLines(current_text), SplitLines(generated_text))

NoDiff == [fn |-> "none", diff |-> <<>>]

\* The function applied to two texts.
DiffTexts ==
    /\ dres' = [fn |-> "diff", diff |-> diff_current_vs_generated(texts.a, texts.b)]
    /\ UNCHANGED <<texts, disk, othersOfDiff>>

\* The generator run without --dry-run writes the text it rendered (b).
GeneratorWrite ==
    /\ disk' = [bytes |-> WriteText(texts.b), applied |-> TRUE]
    /\ dres' = NoDiff
    /\ UNCHANGED <<texts, othersOfDiff>>

\* The page's preview: run_cmd returns the stdout of the dry run read in
\* text mode, conf_path.read_text() the file read in text mode.
PreviewDiff ==
    /\ LET generated_text == ReadText(WriteText(texts.b))
           current_text == ReadText(disk.bytes)
       IN dres' = [fn |-> "preview",
                   diff |-> diff_current_vs_generated(current_text, generated_text)]
    /\ UNCHANGED <<texts, disk, othersOfDiff>>

(***************************************************************************)
(* Part 6.  Choosing the environment block of settings.toml.               *)
(*                                                                         *)
(* A location name is a string, "" when the key is not set.  locations is  *)
(* the list of the [locations.<name>] sections in file order.              *)
(***************************************************************************)

\* [env].location as written in secrets.toml, APP_LOCATION_PRESET, settings.toml
Hints == {"", "home", "HOME", "prod"}

LocationLists ==
    {<<>>, <<"home">>, <<"office">>, <<"home", "office">>, <<"office", "home">>}

\* str.casefold()
Casefold(s) == IF s = "HOME" THEN "home" ELSE s

\* The first of the values that is set, "" when none is.
FirstSet(values) ==
    LET S == {i \in 1..Len(values) : values[i] # ""}
    IN IF S = {} THEN "" ELSE values[Min(S)]

\* lib/nginx_utils.py load_settings: secrets, then the environment
\* variable, then settings.toml; KeyError when the result is "".
LoadSettingsLocation(st) == FirstSet(<<st.secrets, st.envvar, st.file>>)

\* _resolve_env_casefold: the exact key, else the first key equal up to
\* case, else None ("").
ResolveEnvCasefold(hint, locs) ==
    IF hint = "" \/ locs = <<>> THEN ""
    ELSE IF \E i \in 1..Len(locs) : locs[i] = hint THEN hint
    ELSE LET S == {i \in 1..Len(locs) : Casefold(locs[i]) = Casefold(hint)}
         IN IF S = {} THEN "" ELSE locs[Min(S)]

\* _select_env_loc: the resolved name or else the first section; "" stands
\* for RuntimeError.
SelectEnvLoc(hint, locs) ==
    IF ResolveEnvCasefold(hint, locs) # "" THEN ResolveEnvCasefold(hint, locs)
    ELSE IF locs # <<>> THEN locs[1]
    ELSE ""

EnvOut(fn, status, chosen, block) ==
    [fn |-> fn, status |-> status, chosen |-> chosen, block |-> block]

NoEnvOut == EnvOut("none", "none", "", "")

\* tools/generate_nginx_conf_https.py main, up to _render_conf.
GenHttpsEnv ==
    /\ LET loc == LoadSettingsLocation(settings)
           env_name == SelectEnvLoc(loc, settings.locations)
       IN envout' = IF loc = "" \/ env_name = ""
                    THEN EnvOut("https", "raise", loc, "")
                    ELSE EnvOut("https", "rendered", loc, env_name)
    /\ UNCHANGED <<settings, othersOfEnv>>

\* tools/generate_nginx_conf_new.py: _load_settings lets [env] of
\* secrets.toml override settings.toml; _active_loc returns {} when the
\* name is not set or names no section, and the text is rendered from it.
GenNewEnv ==
    /\ LET env == FirstSet(<<settings.secrets, settings.file>>)
           found == env # "" /\ \E i \in 1..Len(settings.locations) : settings.locations[i] = env
       IN envout' = EnvOut("new", "rendered", env, IF found THEN env ELSE "{}")
    /\ UNCHANGED <<settings, othersOfEnv>>

\* tools/generate_nginx_conf.py main: settings["env"]["location"] and
\* settings["locations"][loc_key] raise KeyError.
GenOldEnv ==
    /\ LET loc_key == settings.file
           found == loc_key # "" /\ \E i \in 1..Len(settings.locations) : settings.locations[i] = loc_key
       IN envout' = IF found THEN EnvOut("old", "rendered", loc_key, loc_key)
                    ELSE EnvOut("old", "raise", loc_key, "")
    /\ UNCHANGED <<settings, othersOfEnv>>

(***************************************************************************)
(* Specifications                                                          *)
(***************************************************************************)

\* Paths under app_dir exist only when app_dir does.
FsStates ==
    {f \in [app_dir : BOOLEAN, venv_activate : BOOLEAN, app_py : BOOLEAN,
            pid_dir : BOOLEAN, log_dir : BOOLEAN, writable : BOOLEAN] :
        /\ ~f.app_dir => ~(f.venv_activate \/ f.app_py \/ f.pid_dir \/ f.log_dir)
        /\ f.pid_dir = f.log_dir}

\* No process, no call in progress.
SupIdle ==
    /\ proc = [p \in Pids |-> Unborn]
    /\ fs = [app_dir |-> TRUE, venv_activate |-> TRUE, app_py |-> TRUE,
             pid_dir |-> TRUE, log_dir |-> TRUE, writable |-> TRUE]
    /\ pidfile = NoFile
    /\ denied = {}
    /\ call = [c \in Callers |-> IdleCall]
    /\ hist = [c \in Callers |-> NoHist]

\* An empty registry, nothing computed from it.
RegIdle ==
    /\ nginx_cfg = <<>>
    /\ out = NoOut

\* nginx.conf holds text 0 (hasTarget) or does not exist; no apply has begun.
AppIdle(hasTarget) ==
    /\ target = IF hasTarget THEN 1 ELSE 0
    /\ tmpf = 0
    /\ inodes = [i \in Inodes |-> IF hasTarget /\ i = 1 THEN TextOf(0) ELSE <<>>]
    /\ backups = {}
    /\ clock = 0
    /\ applies = 0
    /\ ap = [a \in Appliers |-> IdleAp]

\* Nothing to compare, nothing compared.
DiffIdle ==
    /\ texts = [a |-> <<>>, b |-> <<>>]
    /\ disk = [bytes |-> <<>>, applied |-> FALSE]
    /\ dres = NoDiff

\* A settings file without environment, no generator run.
EnvIdle ==
    /\ settings = [secrets |-> "", envvar |-> "", file |-> "", locations |-> <<>>]
    /\ envout = NoEnvOut

\* ----- the supervisor: one caller, one app, the processes around it
Init ==
    /\ proc = [p \in Pids |-> Unborn]
    /\ fs \in FsStates
    /\ pidfile \in {NoFile} \cup (IF fs.pid_dir THEN {PidFileOf(0)} ELSE {})
    /\ denied = {}
    /\ call = [c \in Callers |-> IdleCall]
    /\ hist = [c \in Callers |-> NoHist]
    /\ RegIdle
    /\ AppIdle(TRUE)
    /\ DiffIdle
    /\ EnvIdle

Next ==
    \/ StartCheck(1)
    \/ StartSpawnOk(1)
    \/ StartSpawnFail(1)
    \/ StartFinish(1)
    \/ StopCheck(1)
    \/ KillTerm(1)
    \/ KillFinish(1)
    \/ \E port \in Ports \cup {0} : ExtSpawn(port)
    \/ \E p \in Pids : Bind(p)
    \/ \E p \in Pids : Exit(p)

Spec == Init /\ [][Next]_vars

\* ----- the supervisor and the status table of the page
NextStatus ==
    \/ Next
    \/ Status(1)

SpecStatus == Init /\ [][NextStatus]_vars

\* ----- the supervisor with an environment that starts and binds
\* processes only between the calls; processes may exit at any time
NoCallInProgress == \A c \in Callers : call[c].pc = "idle"

NextQuiet ==
    \/ StartCheck(1)
    \/ StartSpawnOk(1)
    \/ StartSpawnFail(1)
    \/ StartFinish(1)
    \/ StopCheck(1)
    \/ KillTerm(1)
    \/ KillFinish(1)
    \/ NoCallInProgress /\ \E port \in Ports \cup {0} : ExtSpawn(port)
    \/ NoCallInProgress /\ \E p \in Pids : Bind(p)
    \/ \E p \in Pids : Exit(p)

SpecQuiet == Init /\ [][NextQuiet]_vars

\* ----- two sessions of the console pressing start for the same app while
\* no process exits
NextStart2 ==
    \/ \E c \in Callers : StartCheck(c)
    \/ \E c \in Callers : StartSpawnOk(c)
    \/ \E c \in Callers : StartSpawnFail(c)
    \/ \E c \in Callers : StartFinish(c)
    \/ \E p \in Pids : Bind(p)

SpecStart2 == Init /\ [][NextStart2]_vars

\* ----- the supervisor among processes of other users: an installed app,
\* processes on its port started outside the console, signals that fail
InitFault ==
    /\ SupIdle
    /\ RegIdle
    /\ AppIdle(TRUE)
    /\ DiffIdle
    /\ EnvIdle

NextFault ==
    \/ StartCheck(1)
    \/ StartSpawnOk(1)
    \/ StartSpawnFail(1)
    \/ StartSpawnNoPid(1)
    \/ StartFinish(1)
    \/ StopCheck(1)
    \/ KillTerm(1)
    \/ KillFinish(1)
    \/ ExtSpawn(TheSpec.port)
    \/ \E p \in Pids : Exit(p)
    \/ \E p \in Pids : Deny(p)

SpecFault == InitFault /\ [][NextFault]_vars

\* The lists kill_pids may be given: any pids, in increasing order.
PidLists == {SortedSeq(S) : S \in SUBSET Pids}

\* ----- kill_pids on any list, next to the stop and start of the console
NextKill ==
    \/ \E pids \in PidLists : KillPids(1, pids)
    \/ KillTerm(1)
    \/ KillFinish(1)
    \/ StopCheck(1)
    \/ StartCheck(1)
    \/ StartSpawnOk(1)
    \/ StartFinish(1)
    \/ ExtSpawn(TheSpec.port)
    \/ \E p \in Pids : Exit(p)

SpecKill == InitFault /\ [][NextKill]_vars

\* ----- the registry functions, applied to every registry
InitReg ==
    /\ SupIdle
    /\ nginx_cfg \in Registries
    /\ out = NoOut
    /\ AppIdle(TRUE)
    /\ DiffIdle
    /\ EnvIdle

NextReg ==
    \/ AppSpecList
    \/ RenderHttps
    \/ RenderNew
    \/ RenderOld

SpecReg == InitReg /\ [][NextReg]_vars

\* ----- apply calls one after the other, on any apply path
InitApply ==
    /\ SupIdle
    /\ RegIdle
    /\ \E hasTarget \in BOOLEAN : AppIdle(hasTarget)
    /\ DiffIdle
    /\ EnvIdle

NextApply1 ==
    \/ \E kind \in ApplyKinds : ApBegin(1, kind)
    \/ ApOpen(1)
    \/ ApWrite(1)
    \/ ApRename(1)
    \/ \E code \in {0, 1} : ApTest(1, code)
    \/ ApReturn(1)
    \/ Tick

SpecApply1 == InitApply /\ [][NextApply1]_vars

\* ----- the generators run from the pages: with --dry-run for the
\* preview, without it by the write button
NextGen ==
    \/ \E kind \in GenKinds, dry \in BOOLEAN : GenMain(1, kind, dry)
    \/ ApOpen(1)
    \/ ApWrite(1)
    \/ ApRename(1)
    \/ \E code \in {0, 1} : ApTest(1, code)
    \/ ApReturn(1)
    \/ Tick

SpecGen == InitApply /\ [][NextGen]_vars

\* ----- two sessions pressing the editor's save button
NextApply2 ==
    \/ \E a \in Appliers : ApBegin(a, "save")
    \/ \E a \in Appliers : ApOpen(a)
    \/ \E a \in Appliers : ApWrite(a)
    \/ \E a \in Appliers : ApRename(a)
    \/ \E a \in Appliers, code \in {0, 1} : ApTest(a, code)
    \/ \E a \in Appliers : ApReturn(a)
    \/ Tick

SpecApply2 == InitApply /\ [][NextApply2]_vars

\* ----- the diff, applied to every pair of texts; the file holds text a
InitDiff ==
    /\ SupIdle
    /\ RegIdle
    /\ AppIdle(TRUE)
    /\ texts \in [a : Texts, b : Texts]
    /\ disk = [bytes |-> WriteText(texts.a), applied |-> FALSE]
    /\ dres = NoDiff
    /\ EnvIdle

NextDiff ==
    \/ DiffTexts
    \/ GeneratorWrite
    \/ PreviewDiff

SpecDiff == InitDiff /\ [][NextDiff]_vars

\* ----- the generators' choice of the environment, for every settings file
InitEnv ==
    /\ SupIdle
    /\ RegIdle
    /\ AppIdle(TRUE)
    /\ DiffIdle
    /\ settings \in [secrets : Hints, envvar : Hints, file : Hints, locations : LocationLists]
    /\ envout = NoEnvOut

NextEnv ==
    \/ GenHttpsEnv
    \/ GenNewEnv
    \/ GenOldEnv

SpecEnv == InitEnv /\ [][NextEnv]_vars

\* ------------------------------------------------- supervisor properties

\* The call of caller c has returned (or raised) and was a call of op.
Returned(c, op) == call[c].pc = "idle" /\ call[c].res.op = op

\* C1: start called again after a start that returned ok=true, the app
\* being still up (the PID file names a running process, or a process
\* listens on the port): the second call returns ok=true, with the
\* "already running" message when the PID file names the running process,
\* spawns nothing and leaves the PID file as it was.
C1_StartTwiceIdempotent ==
    \A c \in Callers :
        (/\ Returned(c, "start")
         /\ hist[c].prev = Ret("start", TRUE, hist[c].prev.msg)
         /\ (hist[c].prePidLive \/ hist[c].prePortBusy))
        => /\ call[c].res.kind = "ret" /\ call[c].res.ok
           /\ call[c].res.msg \in {"already running", "port in use"}
           /\ hist[c].prePidLive => call[c].res.msg = "already running"
           /\ hist[c].spawned = <<>>
           /\ hist[c].pidWrites = 0
           /\ pidfile = hist[c].preFile

\* The first start spawned the process, the second found it running.
C1_Witness ==
    /\ Returned(1, "start")
    /\ hist[1].prev = Ret("start", TRUE, "started")
    /\ hist[1].prePidLive
    /\ call[1].res = Ret("start", TRUE, "already running")

\* C2: two-phase kill.  No SIGKILL is sent before the grace period is over;
\* after the re-probe, a pid of the list that was dead at the re-probe got
\* no SIGKILL and a pid that was alive got exactly one.
C2_TwoPhaseKill ==
    \A c \in Callers :
        /\ call[c].pc \in {"kp_term", "kp_sleep"} => hist[c].kill = <<>>
        /\ hist[c].kill # <<>> => hist[c].slept
        /\ Range(hist[c].kill) \subseteq Range(hist[c].term)
        /\ hist[c].probed =>
             \A p \in Range(hist[c].term) :
                 Count(hist[c].kill, p) = IF p \in hist[c].liveAtProbe THEN 1 ELSE 0

\* Of two pids signalled, one died within the grace period and one did not.
C2_Witness ==
    /\ hist[1].probed
    /\ hist[1].liveAtProbe # {}
    /\ Range(hist[1].term) \ hist[1].liveAtProbe # {}
    /\ Range(hist[1].kill) = hist[1].liveAtProbe

\* C3: stop with no PID file and no process on the port returns ok=true
\* at once: no signal is sent and the grace period is not slept.
C3_StopNothingRunning ==
    \A c \in Callers :
        (/\ call[c].op = "stop" \/ call[c].res.op = "stop"
         /\ ~hist[c].preFile.exists
         /\ ~hist[c].prePortBusy)
        => /\ call[c].pc = "idle"
           /\ call[c].res.kind = "ret" /\ call[c].res.ok
           /\ hist[c].term = <<>> /\ hist[c].kill = <<>>
           /\ ~hist[c].slept

\* stop returned on an app that was started and whose process has exited
\* and whose PID file a previous stop removed.
C3_Witness ==
    /\ Returned(1, "stop")
    /\ ~hist[1].preFile.exists /\ ~hist[1].prePortBusy
    /\ call[1].res.ok
    /\ \E p \in Pids : proc[p].st = "dead"

\* The reason start gives for the first path missing in f, "" if none is.
FirstMissing(f) ==
    IF ~f.app_dir THEN "app_dir missing"
    ELSE IF ~f.venv_activate THEN "venv missing"
    ELSE IF ~f.app_py THEN "entry file missing"
    ELSE ""

\* C14: start checks the app directory, the activate script and the entry
\* file in this order; the first one missing makes start return ok=false
\* with the reason of that check and without side effects: no directory is
\* created, the PID file is not written or changed, nothing is spawned.
C14_StartPreconditions ==
    \A c \in Callers :
        (Returned(c, "start") /\ FirstMissing(hist[c].preFs) # "") =>
            /\ call[c].res = Ret("start", FALSE, FirstMissing(hist[c].preFs))
            /\ fs = hist[c].preFs
            /\ pidfile = hist[c].preFile
            /\ hist[c].spawned = <<>>
            /\ hist[c].pidWrites = 0

\* start returned on an app whose activate script and entry file are both
\* missing: the reason is that of the activate script.
C14_Witness ==
    /\ Returned(1, "start")
    /\ hist[1].preFs.app_dir
    /\ ~hist[1].preFs.venv_activate
    /\ ~hist[1].preFs.app_py
    /\ call[1].res.msg = "venv missing"

\* C15: start, stop and the two-phase kill let no exception escape: every
\* process-level or filesystem-level fault comes back as (ok=false, message).
C15_NoExceptionEscapes ==
    \A c \in Callers :
        call[c].res.op \in {"start", "stop"} => call[c].res.kind = "ret"

\* The processes the calls in progress or just ended have spawned.
SpawnedByCalls == hist[1].spawned \o hist[2].spawned

\* C16: in every interleaving of two start calls on the same app at most
\* one process is spawned for it, and the PID file names that process.
C16_ConcurrentStartsSpawnOnce ==
    /\ Len(SpawnedByCalls) <= 1
    /\ (Len(SpawnedByCalls) = 1 /\ \A c \in Callers : call[c].pc = "idle")
          => pidfile = PidFileOf(SpawnedByCalls[1])

\* The app is STOPPED in the state with process table pr and PID file pf.
AppStopped(pr, pf) ==
    /\ ~(pf.exists /\ pf.txt \in Pids /\ pr[pf.txt].st = "alive")
    /\ \A p \in Pids : ~(pr[p].st = "alive" /\ pr[p].port = TheSpec.port)

\* The step on which the stop call of caller c returns ok=true.
StopReturnsOk(c) ==
    /\ StopCheck(c) \/ KillTerm(c) \/ KillFinish(c)
    /\ call'[c].pc = "idle"
    /\ call'[c].res.kind = "ret"
    /\ call'[c].res.ok

\* C17: when stop returns ok=true the app is STOPPED: the PID file names no
\* live process and no live process is bound to the app's port.
C17_StopOkMeansStopped ==
    [][\A c \in Callers : StopReturnsOk(c) => AppStopped(proc', pidfile')]_vars

C19_StatusReadOnly ==
    \A c \in Callers :
        Returned(c, "status") =>
            /\ pidfile = hist[c].preFile
            /\ hist[c].term = <<>> /\ hist[c].kill = <<>>
            /\ hist[c].spawned = <<>>
            /\ hist[c].pidWrites = 0 /\ hist[c].unlinks = 0
            /\ call[c].res =
                  IF hist[c].prePidLive THEN StatusRow(TRUE, "pidfile")
                  ELSE IF hist[c].prePortBusy THEN StatusRow(TRUE, "port")
                  ELSE StatusRow(FALSE, "-")

\* The status of an app with a stale PID file and a process on its port.
C19_Witness ==
    /\ Returned(1, "status")
    /\ hist[1].preFile.exists
    /\ hist[1].preFile.txt # 0
    /\ ~hist[1].prePidLive
    /\ call[1].res = StatusRow(TRUE, "port")
    /\ pidfile.exists

\* start got past its three precondition checks and past ensure_dir.
PassedChecks(c) ==
    /\ FirstMissing(hist[c].preFs) = ""
    /\ (hist[c].preFs.pid_dir /\ hist[c].preFs.log_dir) \/ hist[c].preFs.writable

StalePidFile == pidfile.exists /\ ~(pidfile.txt \in Pids /\ Alive(pidfile.txt))

\* What a stop call that found a stale PID file has done so far.
C23_StaleState ==
    \A c \in Callers :
        (/\ call[c].op = "stop" \/ call[c].res.op = "stop"
         /\ hist[c].preFile.exists
         /\ ~hist[c].prePidLive)
        => /\ ~pidfile.exists
           /\ hist[c].unlinks = 1
           /\ hist[c].preFile.txt \notin Range(hist[c].term) \cup Range(hist[c].kill)
           /\ call[c].pc # "idle" => call[c].via = "port"
           /\ IF hist[c].prePortBusy
              THEN call[c].pc = "idle" =>
                     /\ hist[c].term # <<>>
                     /\ call[c].res = Ret("stop", TRUE, "stopped (port)")
              ELSE /\ call[c].pc = "idle"
                   /\ call[c].res = Ret("stop", TRUE, "no running process")
                   /\ hist[c].term = <<>> /\ hist[c].kill = <<>>

\* The steps of stop on a stale PID file: the kill gets every pid bound to
\* the port, and the graceful signal goes to each of them.
C23_StaleStep ==
    \A c \in Callers :
        /\ (StopCheck(c) /\ StalePidFile /\ FindPidsByPort(TheSpec.port) # <<>>)
              => /\ call'[c].pc = "kp_term"
                 /\ call'[c].pids = FindPidsByPort(TheSpec.port)
        /\ (KillTerm(c) /\ call[c].via = "port")
              => hist'[c].term = call[c].pids

Refusing(pids) == {i \in 1..Len(pids) : Alive(pids[i]) /\ pids[i] \in denied}

\* A kill that was aborted in its graceful phase has not slept, has not
\* probed and has sent no SIGKILL; one that got through it signalled all.
C24_AbortedState ==
    \A c \in Callers :
        /\ (Returned(c, "stop") /\ call[c].res.kind = "ret" /\ ~call[c].res.ok)
              => /\ hist[c].term # <<>>
                 /\ ~hist[c].slept /\ ~hist[c].probed
                 /\ hist[c].kill = <<>>
        /\ call[c].pc = "kp_sleep" => hist[c].term = call[c].pids

\* The graceful phase in one step.
C24_TermStep ==
    \A c \in Callers :
        (KillTerm(c) /\ call[c].pids # <<>>) =>
            LET pids == call[c].pids IN
            IF Refusing(pids) = {}
            THEN /\ hist'[c].term = pids
                 /\ call'[c].pc = "kp_sleep"
            ELSE /\ hist'[c].term = SubSeq(pids, 1, Min(Refusing(pids)))
                 /\ call'[c].pc = "idle"
                 /\ call'[c].res.kind = "ret" /\ ~call'[c].res.ok
                 /\ ~hist'[c].slept
                 /\ hist'[c].kill = <<>>
                 /\ proc' = proc

\* C24: in the graceful phase a pid that is gone is passed over and the
\* pids after it still get SIGTERM; a SIGTERM that fails for another reason
\* ends the call: ok=false at once, no grace period, no SIGKILL.
C24_GracefulPhaseAbort == []C24_AbortedState /\ [][C24_TermStep]_vars

\* Of two pids of the port the first was gone and was passed over, the
\* second refused the signal: stop returned ok=false without sleeping.
C24_Witness ==
    /\ Returned(1, "stop")
    /\ call[1].res = Ret("stop", FALSE, "stop failed (port)")
    /\ Len(hist[1].term) = 2
    /\ proc[hist[1].term[1]].st = "dead"
    /\ Alive(hist[1].term[2]) /\ hist[1].term[2] \in denied
    /\ ~hist[1].slept
    /\ hist[1].kill = <<>>

\* C25: a failed start leaves the app STOPPED: when start returns
\* ok=false, the call has spawned no process.
C25_FailedStartSpawnsNothing ==
    \A c \in Callers :
        (Returned(c, "start") /\ call[c].res.kind = "ret" /\ ~call[c].res.ok)
            => hist[c].spawned = <<>>

C29_StopKillState ==
    \A c \in Callers :
        /\ (call[c].op = "stop" /\ call[c].pc \in {"kp_term", "kp_sleep"})
              => /\ call[c].pids # <<>>
                 /\ IF hist[c].prePidLive
                    THEN call[c].via = "pidfile" /\ call[c].pids = <<hist[c].preFile.txt>>
                    ELSE call[c].via = "port" /\ hist[c].prePortBusy
        /\ (call[c].op = "stop" \/ call[c].res.op = "stop")
              => /\ \A p \in Pids : Count(hist[c].term, p) <= 1
                                     /\ Count(hist[c].kill, p) <= 1
                 /\ hist[c].term = <<>> => hist[c].kill = <<>> /\ ~hist[c].slept
        /\ (Returned(c, "kill") /\ call[c].res = Ret("kill", FALSE, "no pid found"))
              => hist[c].term = <<>> /\ hist[c].kill = <<>> /\ ~hist[c].slept

\* kill_pids on the empty list returns at once; a stop that has entered
\* kill_pids does not enter it again and keeps its list.
C29_KillStep ==
    \A c \in Callers :
        /\ (KillTerm(c) /\ call[c].pids = <<>>)
              => /\ call'[c].pc = "idle"
                 /\ call'[c].res.kind = "ret" /\ ~call'[c].res.ok
                 /\ hist'[c].term = <<>> /\ hist'[c].kill = <<>>
                 /\ ~hist'[c].slept
                 /\ proc' = proc
        /\ (call[c].op = "stop" /\ call[c].pc = "kp_term")
              => \/ call'[c] = call[c]
                 \/ call'[c] = [call[c] EXCEPT !.pc = "kp_sleep"]
                 \/ call'[c].pc = "idle"
        /\ (call[c].op = "stop" /\ call[c].pc = "kp_sleep")
              => call'[c] = call[c] \/ call'[c].pc = "idle"

\* C29: kill_pids on the empty list returns ok=false, sends no signal and
\* does not sleep; stop never calls it with the empty list: a stop call
\* runs the two-phase kill at most once, on a non-empty list that comes
\* from the PID file or from the port, not from both.
C29_KillOnceNonEmpty == []C29_StopKillState /\ [][C29_KillStep]_vars

\* kill_pids was called with the empty list after a stop that found
\* nothing to kill: it returned ok=false and did nothing.
C29_Witness ==
    /\ Returned(1, "kill")
    /\ call[1].res = Ret("kill", FALSE, "no pid found")
    /\ hist[1].prev = Ret("stop", TRUE, "no running process")
    /\ hist[1].term = <<>>
    /\ ~hist[1].slept

\* --------------------------------------------------- registry properties

\* The generators: render in tls mode and in plain mode.
Renders == {"render_https", "render_new", "render_old"}

\* The generators that know the sso_issuer key.
SsoRenders == {"render_https", "render_new"}

\* Indices of the enabled entries with sso_issuer = true.
Issuers(cfg) == {i \in 1..Len(cfg) : cfg[i].enabled /\ cfg[i].sso_issuer}

\* C4: a registry with two or more enabled sso_issuer entries makes render
\* fail with a validation error and produce no text; with zero or one such
\* entry render succeeds.
C4_TwoIssuersFatal ==
    out.fn \in SsoRenders =>
        IF Cardinality(Issuers(nginx_cfg)) >= 2
        THEN out.status = "error" /\ out.blocks = <<>>
        ELSE out.status = "ok"

\* The apps one of whose blocks rewrites the cookie path to "/".
CookieApps == {out.blocks[i].app : i \in {j \in 1..Len(out.blocks) : out.blocks[j].cookie}}

BlockApps == {out.blocks[i].app : i \in 1..Len(out.blocks)}

\* C5: in every rendered text at most one app's block has the cookie-path
\* rewrite to the root; when exactly one enabled entry is the SSO issuer,
\* its block has the rewrite and no block of another app has it.
C5_OneCookieRewrite ==
    out.fn \in SsoRenders =>
        /\ Cardinality(CookieApps) <= 1
        /\ \A k \in Issuers(nginx_cfg) :
              Issuers(nginx_cfg) = {k} =>
                 /\ nginx_cfg[k].name \in BlockApps => nginx_cfg[k].name \in CookieApps
                 /\ CookieApps \subseteq {nginx_cfg[k].name}

\* The AppSpec the entry resolves to.
ExpectedSpec(e) ==
    [name |-> e.name, port |-> e.port,
     pid_file |-> <<<<"project_root">>, <<e.name, "_project">>, <<e.name, "_app">>,
                    <<".run">>, <<e.name, ".pid">>>>]

\* C6: discoverSpecs returns one AppSpec for exactly the entries with
\* enabled = true and port > 0, in registry order, each with the pid file
\* path <projectRoot>/<name>_project/<name>_app/.run/<name>.pid.
C6_DiscoverSpecsFilter ==
    out.fn = "app_spec_list" =>
        out.specs = Map(SelectSeq(nginx_cfg,
                                  LAMBDA e : e.enabled /\ e.hasPort /\ e.port > 0),
                        ExpectedSpec)

\* C7: an enabled entry whose port is 0 or absent gets no location block
\* from render, SSO issuer or not.
C7_NoBlockWithoutPort ==
    out.fn \in Renders =>
        \A i \in 1..Len(nginx_cfg) :
            (nginx_cfg[i].enabled /\ (~nginx_cfg[i].hasPort \/ nginx_cfg[i].port = 0))
            => nginx_cfg[i].name \notin BlockApps

\* The base with exactly one leading slash and no trailing slash.
NormalizedBase(b) == <<"/">> \o Reverse(LStripSlash(Reverse(LStripSlash(b))))

\* C20: render normalizes the base of every app to one leading slash and
\* no trailing slash: an entry with base "bot" or "/bot/" gets exactly the
\* redirect rule for /bot and the proxy rule for /bot/, in plain and in
\* tls mode.
C20_BaseNormalized ==
    out.fn \in SsoRenders =>
        \A i \in 1..Len(nginx_cfg), j \in 1..Len(out.blocks) :
            (/\ out.blocks[j].app = nginx_cfg[i].name
             /\ out.blocks[j].kind # "root"
             /\ nginx_cfg[i].base \in {<<nginx_cfg[i].name>>,
                                       <<"/", nginx_cfg[i].name, "/">>})
            => /\ out.blocks[j].redirect = NormalizedBase(nginx_cfg[i].base)
               /\ out.blocks[j].proxy = NormalizedBase(nginx_cfg[i].base) \o <<"/">>

\* C30: the supervisor and the generators agree on the public path of an
\* app: for every enabled entry with a positive port, the location render
\* emits for the app is "/" followed by the base path start gives the
\* spawned process, whatever base the entry sets.
C30_PathsAgree ==
    out.fn \in Renders =>
        \A i \in 1..Len(nginx_cfg), j \in 1..Len(out.blocks) :
            (/\ out.blocks[j].app = nginx_cfg[i].name
             /\ out.blocks[j].kind # "root"
             /\ nginx_cfg[i].enabled
             /\ nginx_cfg[i].hasPort /\ nginx_cfg[i].port > 0)
            => /\ out.blocks[j].redirect = <<"/">> \o BaseUrlPath(AppSpecOf(nginx_cfg[i]))
               /\ out.blocks[j].proxy =
                      <<"/">> \o BaseUrlPath(AppSpecOf(nginx_cfg[i])) \o <<"/">>

\* ------------------------------------------------------ apply properties

\* The apply call of applier a has written the file and returned.
Applied(a) == ap[a].pc = "done" /\ ap[a].res = "written"

\* C8: an apply, on every apply path, leaves exactly one new backup file
\* when the target existed and none when it did not; the backup holds the
\* content the target had before the apply.
C8_OneBackupPerApply ==
    \A a \in Appliers :
        Applied(a) =>
            LET new == {b \in backups : b.name \notin ap[a].bakBefore}
            IN /\ Cardinality(new) = IF ap[a].existed THEN 1 ELSE 0
               /\ \A b \in new : b.content = ap[a].pre

\* C9: while one apply is in progress, the target path shows either the
\* complete previous content (or no file, if there was none) or the
\* complete new text, never a partly written file.
C9_ReaderSeesOldOrNew ==
    \A a \in Appliers :
        ap[a].pc # "idle" =>
            /\ ContentOf(target) \in {ap[a].pre, TextOf(ap[a].k)}
            /\ target = 0 => ~ap[a].existed

\* Both appliers have made their call and both calls are over.
BothDone == \A a \in Appliers : ap[a].pc = "done"

\* C10: with two concurrent applies on the same target no partial write is
\* ever visible at the target, the final content is the complete text of
\* one of the two calls, and both calls have produced a backup.
C10_TwoConcurrentApplies ==
    /\ target # 0 => inodes[target] \in CompleteTexts
    /\ BothDone =>
          /\ ContentOf(target) \in {TextOf(ap[a].k) : a \in Appliers}
          /\ (\A a \in Appliers : ap[a].existed) => \A a \in Appliers : ap[a].backed

C26_DryState ==
    \A a \in Appliers :
        ap[a].dry => /\ ap[a].pc = "done"
                     /\ ap[a].res = "stdout"
                     /\ ap[a].kind \in GenKinds

\* The step of a run with --dry-run changes no file.
C26_DryStep ==
    \A a \in Appliers :
        (ap[a].pc = "idle" /\ ap'[a].dry)
            => UNCHANGED <<target, tmpf, inodes, backups>>

\* C26: a generator run with --dry-run gives the rendered text and touches
\* no file: no backup is made, no temporary file is created, nginx.conf
\* is neither created nor changed.
C26_DryRunTouchesNothing == []C26_DryState /\ [][C26_DryStep]_vars

\* A dry run of the generator that backs up and writes in place, on an
\* existing nginx.conf written by an earlier run: nothing is new.
C26_Witness ==
    /\ ap[1].dry
    /\ ap[1].kind = "gen_new"
    /\ ap[1].res = "stdout"
    /\ ap[1].k = 2
    /\ target # 0 /\ ContentOf(target) = TextOf(1)
    /\ tmpf = 0

\* A call that found nginx.conf in place has a backup of what it found.
C27_BackupTaken ==
    \A a \in Appliers :
        (ap[a].pc \notin {"idle"} /\ ~ap[a].dry /\ ap[a].existed)
            => \E b \in backups : b.content = ap[a].pre

\* A content that has a backup goes on having one.
C27_BackupKept ==
    \A b \in backups : \E b2 \in backups' : b2.content = b.content

\* C27: after any sequence of apply calls, every call that found an
\* existing nginx.conf still has a backup file with the content it found;
\* two applies within the same second do not overwrite one another's
\* backup.
C27_BackupsSurvive == []C27_BackupTaken /\ [][C27_BackupKept]_vars

\* ------------------------------------------------------- diff properties

C13_EnvMissingIsFatal ==
    envout.status = "rendered" =>
        /\ envout.chosen # ""
        /\ envout.block # "{}"
        /\ Casefold(envout.block) = Casefold(envout.chosen)

====
